---------------------------- MODULE Spec2Model ----------------------------
(***************************************************************************)
(* Check-in / check-out API of arc-check-in (src/api-handler.ts).          *)
(*                                                                         *)
(* The DynamoDB table is a set of items keyed by (userId, checkInTime).    *)
(* Every API invocation is a stateless Lambda run: it is modelled as a     *)
(* slot of `inv` that walks through the awaits of its handler.  Between    *)
(* two awaits of one invocation any other invocation may run and the wall  *)
(* clock may advance.                                                      *)
(*                                                                         *)
(* Timestamps: new Date().toISOString() is a fixed-width UTC string with   *)
(* millisecond resolution, whose lexicographic order (the order DynamoDB   *)
(* uses for the sort key) is the order of the instants.  A timestamp is    *)
(* modelled by the number of the millisecond it names; the absent (or      *)
(* null) attribute is NoTime.                                              *)
(***************************************************************************)
EXTENDS Naturals, Sequences, FiniteSets

VARIABLES
    store,   \* the items of the table DYNAMODB_TABLE_NAME
    clock,   \* the millisecond new Date() currently reads
    inv,     \* the API invocations: position, inputs, locals, response
    request, \* what the caller of each invocation sent (history only)
    card,    \* the CheckInCard component of one browser tab
    admin    \* the AdminContent component of one browser tab

vars == <<store, clock, inv, request, card, admin>>

\* What lies outside the handler's own state.
client == <<request, card, admin>>

\* ------------------------------------------------------------ bounds
\* Number of API invocations in one behaviour.
MaxInv == 4
\* Last millisecond the clock reaches.
MaxClock == 2
\* Number of invocations in flight at once.
MaxConcurrent == 2
\* Number of store calls that fail in one behaviour.
MaxFaults == 1

\* The longest history a table starts with, one more than the page the
\* history returns.
MaxRows == 51
\* Number of items one Scan call reads (what fits in its 1 MB page).
MaxPage == 3

\* ------------------------------------------------------------ values
Users == {"u1", "u2"}
NoUser == "nobody"
NoTime == 0
Times == 1..MaxClock
Invs == 1..MaxInv
Kinds == {"toggle", "status", "history"}

\* Limit of the history query.
HistoryLimit == 50

Min(a, b) == IF a <= b THEN a ELSE b

NoResp ==
    [statusCode |-> 0, checkedIn |-> FALSE, checkInTime |-> NoTime,
     checkOutTime |-> NoTime, sessions |-> <<>>]

IdleInv ==
    [pc |-> "idle", kind |-> "none", userId |-> NoUser,
     currentSession |-> NoTime, now |-> NoTime, peers |-> {}, resp |-> NoResp]

\* CheckInCard before it is mounted: the useState initial values.  pc is
\* where the component is; mark is the number of invocations the API had
\* seen when the card sent the request it is waiting for; stale tells that
\* a POST of the card has failed and no status has been applied since,
\* and posts is the number of POSTs of the card that have not settled
\* (both history only).
InitCard ==
    [pc |-> "unmounted", checkedIn |-> FALSE, checkInTime |-> NoTime,
     loading |-> FALSE, initialLoading |-> TRUE, mark |-> 0, stale |-> FALSE,
     posts |-> 0]

\* The user of the browser tab.
CardUser == "u1"

\* AdminContent before it is mounted.  isLoading and isAuthenticated are
\* what useAuth0 returns, isAdmin and adminLoading the state of
\* useAdminRole (its useState initial values), effect tells that the
\* effect of useAdminRole is due, claims that getIdTokenClaims has not
\* resolved yet, view is what the last render returned; session is what
\* Auth0 will find for this browser (history only).
NoSession == [authenticated |-> FALSE, roles |-> {}]

InitAdmin ==
    [pc |-> "unmounted", isLoading |-> TRUE, isAuthenticated |-> FALSE,
     isAdmin |-> FALSE, adminLoading |-> TRUE, effect |-> FALSE,
     claims |-> FALSE, view |-> "none", session |-> NoSession]

\* No request recorded.
NoRequest ==
    [genuine |-> FALSE, roles |-> {}, path |-> "none",
     start |-> NoTime, end |-> NoTime]

\* ------------------------------------------------------------ the table
Item(u, t, out) == [userId |-> u, checkInTime |-> t, checkOutTime |-> out]

HasKey(s, u, t) == s.userId = u /\ s.checkInTime = t

\* A Scan of the whole table in place of the query on one partition.
PartitionScan(u) == store

\* The items of partition u.
Partition(u) == {s \in store : s.userId = u}

\* ScanIndexForward: true would read the partition oldest first.
OldestFirst(S) == CHOOSE s \in S : \A t \in S : s.checkInTime <= t.checkInTime

\* ScanIndexForward: false: the item of S with the greatest sort key.
MostRecentFirst(S) == CHOOSE s \in S : \A t \in S : t.checkInTime <= s.checkInTime

\* A query that ignores its Limit.
RECURSIVE QueryCommandUnlimited(_, _)
QueryCommandUnlimited(S, n) ==
    IF S = {}
    THEN <<>>
    ELSE LET m == MostRecentFirst(S)
         IN  <<m>> \o QueryCommandUnlimited(S \ {m}, n)

\* QueryCommand on one partition, descending sort key, Limit n.
RECURSIVE QueryCommand(_, _)
QueryCommand(S, n) ==
    IF S = {} \/ n = 0
    THEN <<>>
    ELSE LET m == MostRecentFirst(S)
         IN  <<m>> \o QueryCommand(S \ {m}, n - 1)

\* PutCommand without ConditionExpression: the item replaces whatever item
\* has its key; the new item has no checkOutTime attribute.
PutCommand(u, t) ==
    {s \in store : ~HasKey(s, u, t)} \cup {Item(u, t, NoTime)}

\* attribute_exists written for attribute_not_exists.
ConditionExpressionExists(u, t) ==
    \E s \in store : HasKey(s, u, t) /\ s.checkOutTime # NoTime

\* 'attribute_not_exists(checkOutTime) OR checkOutTime = :null', evaluated
\* on the item with key (u, t); on a missing item it is true.
ConditionExpression(u, t) ==
    \A s \in store : HasKey(s, u, t) => s.checkOutTime = NoTime

\* UpdateCommand 'SET checkOutTime = :checkOutTime' on key (u, t); an
\* UpdateItem on a missing key creates the item.
UpdateCommand(u, t, out) ==
    {s \in store : ~HasKey(s, u, t)} \cup {Item(u, t, out)}

\* Items[1] read where Items[0] is meant: with Limit 1 there is no such item.
getCurrentSessionOffByOne(u) ==
    LET Items == QueryCommand(Partition(u), 1)
    IN  IF Len(Items) >= 2 /\ Items[2].checkOutTime = NoTime
        THEN Items[2].checkInTime
        ELSE NoTime

\* getCurrentSession: the latest item of the user if it is not checked
\* out, else null.  The result is the session's checkInTime, the only
\* attribute its callers read.
getCurrentSession(u) ==
    LET Items == QueryCommand(Partition(u), 1)
    IN  IF Items # <<>> /\ Items[1].checkOutTime = NoTime
        THEN Items[1].checkInTime
        ELSE NoTime

\* ------------------------------------------------------------ responses
\* 200 body of GET /api/checkin/status.
StatusBody(cur) ==
    [statusCode |-> 200, checkedIn |-> cur # NoTime, checkInTime |-> cur,
     checkOutTime |-> NoTime, sessions |-> <<>>]

\* 200 body of POST /api/checkin after a check-out.
CheckedOutBody(cur, out) ==
    [statusCode |-> 200, checkedIn |-> FALSE, checkInTime |-> cur,
     checkOutTime |-> out, sessions |-> <<>>]

\* 200 body of POST /api/checkin after a check-in.
CheckedInBody(t) ==
    [statusCode |-> 200, checkedIn |-> TRUE, checkInTime |-> t,
     checkOutTime |-> NoTime, sessions |-> <<>>]

\* A projection that forgets the check-out time.
SessionEntryOpenOnly(item) ==
    [checkInTime |-> item.checkInTime, checkOutTime |-> NoTime]

\* One entry of the history body: checkOutTime || null.
SessionEntry(item) ==
    [checkInTime |-> item.checkInTime, checkOutTime |-> item.checkOutTime]

\* 200 body of GET /api/checkin/history.
HistoryBody(items) ==
    [statusCode |-> 200, checkedIn |-> FALSE, checkInTime |-> NoTime,
     checkOutTime |-> NoTime,
     sessions |-> [k \in 1..Len(items) |-> SessionEntry(items[k])]]

\* A catch block that answers every error alike.
CatchAll500(name) == 500

\* The catch block of handleCheckinToggle: 409 for a failed condition,
\* 500 for anything else.
ToggleCatch(name) ==
    IF name = "ConditionalCheckFailedException" THEN 409 ELSE 500

ErrorBody(code) ==
    [statusCode |-> code, checkedIn |-> FALSE, checkInTime |-> NoTime,
     checkOutTime |-> NoTime, sessions |-> <<>>]

\* ------------------------------------------------------------ initial state
Init ==
    /\ store = {}
    /\ clock = 1
    /\ inv = [i \in Invs |-> IdleInv]
    /\ request = [i \in Invs |-> NoRequest]
    /\ card = InitCard
    /\ admin = InitAdmin

\* The invocations between their first await and their response.
InFlight == {j \in Invs : inv[j].pc \notin {"idle", "done"}}

Quiescent == InFlight = {}

\* The toggles of the same user that hold the same session from their read
\* and have not written yet (history only: no action reads it).
ReadersOf(u, cur) ==
    {j \in Invs : /\ inv[j].kind = "toggle"
                  /\ inv[j].pc \in {"stamp", "send"}
                  /\ inv[j].userId = u
                  /\ inv[j].currentSession = cur}

\* handler: a verified request is routed to its handler, which runs up to
\* its first await.  Invocations are numbered in the order they arrive.
Arrives(i) ==
    /\ inv[i].pc = "idle"
    /\ \A j \in Invs : j < i => inv[j].pc # "idle"
    /\ Cardinality(InFlight) < MaxConcurrent

\* ------------------------------------------------------------ actions
\* The wall clock advances by a millisecond.
Tick ==
    /\ clock < MaxClock
    /\ clock' = clock + 1
    /\ UNCHANGED <<store, inv>>

\* A status that closes the open session it finds.
HandleCheckinStatusClosing(i, u) ==
    /\ Arrives(i)
    /\ LET cur == getCurrentSession(u)
       IN  /\ inv' = [inv EXCEPT ![i] = [IdleInv EXCEPT
                           !.pc = "done", !.kind = "status", !.userId = u,
                           !.currentSession = cur, !.resp = StatusBody(cur)]]
           /\ store' = IF cur = NoTime THEN store
                        ELSE UpdateCommand(u, cur, clock)
    /\ UNCHANGED clock

\* handleCheckinStatus for decoded.sub = u: getCurrentSession, then the
\* 200 body.
HandleCheckinStatus(i, u) ==
    /\ Arrives(i)
    /\ LET cur == getCurrentSession(u)
       IN  inv' = [inv EXCEPT ![i] = [IdleInv EXCEPT
                        !.pc = "done", !.kind = "status", !.userId = u,
                        !.currentSession = cur, !.resp = StatusBody(cur)]]
    /\ UNCHANGED <<store, clock>>

\* handleCheckinHistory for decoded.sub = u: the query of the last
\* HistoryLimit sessions, then the 200 body.
HandleCheckinHistory(i, u) ==
    /\ Arrives(i)
    /\ inv' = [inv EXCEPT ![i] = [IdleInv EXCEPT
                    !.pc = "done", !.kind = "history", !.userId = u,
                    !.resp = HistoryBody(QueryCommand(Partition(u), HistoryLimit))]]
    /\ UNCHANGED <<store, clock>>

\* The timestamp taken on entry, before the session is read.
ToggleQueryHoisted(i, u) ==
    /\ \/ /\ Arrives(i)
          /\ inv' = [inv EXCEPT ![i] = [IdleInv EXCEPT
                          !.pc = "entered", !.kind = "toggle", !.userId = u,
                          !.now = clock]]
       \/ /\ inv[i].pc = "entered"
          /\ inv[i].userId = u
          /\ LET cur == getCurrentSession(u)
             IN  inv' = [inv EXCEPT ![i].pc = "send",
                                    ![i].currentSession = cur,
                                    ![i].peers = ReadersOf(u, cur)]
    /\ UNCHANGED <<store, clock>>

\* handleCheckinToggle for decoded.sub = u: await getCurrentSession(userId).
ToggleQuery(i, u) ==
    /\ Arrives(i)
    /\ LET cur == getCurrentSession(u)
       IN  inv' = [inv EXCEPT ![i] = [IdleInv EXCEPT
                        !.pc = "stamp", !.kind = "toggle", !.userId = u,
                        !.currentSession = cur, !.peers = ReadersOf(u, cur)]]
    /\ UNCHANGED <<store, clock>>

\* handleCheckinToggle: new Date().toISOString(), in either branch.
ToggleStamp(i) ==
    /\ inv[i].pc = "stamp"
    /\ inv' = [inv EXCEPT ![i].pc = "send", ![i].now = clock]
    /\ UNCHANGED <<store, clock>>

\* handleCheckinToggle, check-out branch: the conditional UpdateCommand
\* reaches the table; 200 when it is applied, else the catch block.
\* A check-out that gives up with 409 whenever another toggle of the user
\* held the same session from its read at the same time.
ToggleCheckOutBacksOff(i) ==
    /\ inv[i].pc = "send"
    /\ inv[i].currentSession # NoTime
    /\ LET u == inv[i].userId
           cur == inv[i].currentSession
       IN  IF /\ ConditionExpression(u, cur)
              /\ \A j \in Invs \ {i} : i \notin inv[j].peers /\ j \notin inv[i].peers
           THEN /\ store' = UpdateCommand(u, cur, inv[i].now)
                /\ inv' = [inv EXCEPT ![i].pc = "done",
                                      ![i].resp = CheckedOutBody(cur, inv[i].now)]
           ELSE /\ store' = store
                /\ inv' = [inv EXCEPT ![i].pc = "done",
                                      ![i].resp = ErrorBody(
                                          ToggleCatch("ConditionalCheckFailedException"))]
    /\ UNCHANGED clock

ToggleCheckOut(i) ==
    /\ inv[i].pc = "send"
    /\ inv[i].currentSession # NoTime
    /\ LET u == inv[i].userId
           cur == inv[i].currentSession
       IN  IF ConditionExpression(u, cur)
           THEN /\ store' = UpdateCommand(u, cur, inv[i].now)
                /\ inv' = [inv EXCEPT ![i].pc = "done",
                                      ![i].resp = CheckedOutBody(cur, inv[i].now)]
           ELSE /\ store' = store
                /\ inv' = [inv EXCEPT ![i].pc = "done",
                                      ![i].resp = ErrorBody(
                                          ToggleCatch("ConditionalCheckFailedException"))]
    /\ UNCHANGED clock

\* handleCheckinToggle, check-in branch: the PutCommand reaches the table.
ToggleCheckIn(i) ==
    /\ inv[i].pc = "send"
    /\ inv[i].currentSession = NoTime
    /\ store' = PutCommand(inv[i].userId, inv[i].now)
    /\ inv' = [inv EXCEPT ![i].pc = "done",
                          ![i].resp = CheckedInBody(inv[i].now)]
    /\ UNCHANGED clock

\* The invocations whose store call failed: only they answer 500.
Faulted == {j \in Invs : inv[j].resp.statusCode = 500}

\* docClient.send rejects with an error that is no failed condition
\* (throttling, network, timeout): the read of a request fails, or the
\* write of a toggle fails, applied or not.
QueryFault(i, k, u) ==
    /\ Arrives(i)
    /\ Cardinality(Faulted) < MaxFaults
    /\ inv' = [inv EXCEPT ![i] = [IdleInv EXCEPT
                    !.pc = "done", !.kind = k, !.userId = u,
                    !.resp = ErrorBody(IF k = "toggle"
                                       THEN ToggleCatch("ServiceUnavailable")
                                       ELSE 500)]]
    /\ UNCHANGED <<store, clock>>

\* A catch block that swallows the error and answers as if the write had
\* been applied.
WriteFaultSwallowed(i, applied) ==
    /\ inv[i].pc = "send"
    /\ Cardinality(Faulted) < MaxFaults
    /\ ~applied
    /\ store' = store
    /\ inv' = [inv EXCEPT ![i].pc = "done",
                          ![i].resp = IF inv[i].currentSession = NoTime
                                      THEN CheckedInBody(inv[i].now)
                                      ELSE CheckedOutBody(inv[i].currentSession,
                                                          inv[i].now)]
    /\ UNCHANGED clock

\* The error of the write let through to the catch of the handler, which
\* answers 401.
WriteFaultRethrown(i, applied) ==
    /\ inv[i].pc = "send"
    /\ Cardinality(Faulted) < MaxFaults
    /\ ~applied
    /\ store' = store
    /\ inv' = [inv EXCEPT ![i].pc = "done", ![i].resp = ErrorBody(401)]
    /\ UNCHANGED clock

WriteFault(i, applied) ==
    /\ inv[i].pc = "send"
    /\ Cardinality(Faulted) < MaxFaults
    /\ LET u == inv[i].userId
           cur == inv[i].currentSession
       IN  store' = IF ~applied THEN store
                    ELSE IF cur = NoTime THEN PutCommand(u, inv[i].now)
                    ELSE IF ConditionExpression(u, cur)
                         THEN UpdateCommand(u, cur, inv[i].now)
                         ELSE store
    /\ inv' = [inv EXCEPT ![i].pc = "done",
                          ![i].resp = ErrorBody(ToggleCatch("ServiceUnavailable"))]
    /\ UNCHANGED clock

\* ------------------------------------------------------------ the table scan
\* The order in which a Scan walks the table: partition after partition,
\* in an order of the partitions the caller does not know, each by
\* ascending sort key.
ScanOrders ==
    {r \in [Users -> 1..Cardinality(Users)] :
        \A u, v \in Users : r[u] = r[v] => u = v}

Precedes(r, s, t) ==
    \/ r[s.userId] < r[t.userId]
    \/ s.userId = t.userId /\ s.checkInTime < t.checkInTime

\* ScanCommand, one call: the first MaxPage items in scan order (the
\* filter is applied to what the page read; the rest of the table is
\* behind LastEvaluatedKey).
ScanCommand ==
    {P \in SUBSET store :
        /\ Cardinality(P) = Min(Cardinality(store), MaxPage)
        /\ \E r \in ScanOrders : \A s \in P, t \in store \ P : Precedes(r, s, t)}

\* .sort((a, b) => b.checkInTime.localeCompare(a.checkInTime)): the
\* entries by descending checkInTime, equal ones in either order.
SortedDescending(S) ==
    {q \in [1..Cardinality(S) -> S] :
        /\ \A k, l \in 1..Cardinality(S) : q[k] = q[l] => k = l
        /\ \A k \in 1..(Cardinality(S) - 1) :
              q[k].checkInTime >= q[k + 1].checkInTime}

\* Entries of the admin responses (userName and userEmail are not stored
\* by the toggle and come out as '').
ActiveEntry(item) ==
    [userId |-> item.userId, checkInTime |-> item.checkInTime]

RangedEntry(item) ==
    [userId |-> item.userId, checkInTime |-> item.checkInTime,
     checkOutTime |-> item.checkOutTime]

\* 200 body of the admin endpoints.
AdminBody(entries) ==
    [statusCode |-> 200, checkedIn |-> FALSE, checkInTime |-> NoTime,
     checkOutTime |-> NoTime, sessions |-> entries]

\* 200 body of /api/test and /api/user-info.
InfoBody ==
    [statusCode |-> 200, checkedIn |-> FALSE, checkInTime |-> NoTime,
     checkOutTime |-> NoTime, sessions |-> <<>>]

\* The response of an admin handler: no user id is taken from the token.
AdminReturns(i, k, body) ==
    inv' = [inv EXCEPT ![i] = [IdleInv EXCEPT
                !.pc = "done", !.kind = k, !.resp = body]]

\* docClient.send of a Scan rejects (throttling, network, timeout).
ScanThrows == Cardinality(Faulted) < MaxFaults

\* handleAdminActiveCheckins: Scan with FilterExpression
\* attribute_not_exists(checkOutTime), sorted, projected; the catch
\* answers 500.
handleAdminActiveCheckins(i) ==
    /\ Arrives(i)
    /\ \/ \E Items \in ScanCommand :
            \E sessions \in SortedDescending({ActiveEntry(s) : s \in {x \in Items : x.checkOutTime = NoTime}}) :
               AdminReturns(i, "active", AdminBody(sessions))
       \/ ScanThrows /\ AdminReturns(i, "active", ErrorBody(500))
    /\ UNCHANGED <<store, clock>>

\* FilterExpression 'checkInTime BETWEEN :start AND :end': DynamoDB
\* rejects the request with a ValidationException when the upper bound is
\* less than the lower bound, and otherwise keeps the items with
\* start <= checkInTime <= end.
BetweenValid(start, end) == start <= end

Between(Items, start, end) ==
    {x \in Items : start <= x.checkInTime /\ x.checkInTime <= end}

\* The Scan of handleAdminCheckinHistory and what follows it: the sorted,
\* projected items in a 200, or the catch with 500.
ScanRange(i, start, end) ==
    \/ /\ BetweenValid(start, end)
       /\ \E Items \in ScanCommand :
             \E sessions \in SortedDescending(
                       {RangedEntry(s) : s \in Between(Items, start, end)}) :
                AdminReturns(i, "ranged", AdminBody(sessions))
    \/ /\ ~BetweenValid(start, end) \/ ScanThrows
       /\ AdminReturns(i, "ranged", ErrorBody(500))

\* The parameters looked at only after the Scan has been sent.
handleAdminCheckinHistoryScanFirst(i, start, end) ==
    /\ Arrives(i)
    /\ \/ /\ start = NoTime \/ end = NoTime
          /\ \/ AdminReturns(i, "ranged", ErrorBody(400))
             \/ ScanThrows /\ AdminReturns(i, "ranged", ErrorBody(500))
       \/ /\ start # NoTime /\ end # NoTime
          /\ ScanRange(i, start, end)
    /\ UNCHANGED <<store, clock>>

\* handleAdminCheckinHistory(start, end): 400 when a parameter is missing,
\* else the Scan.
handleAdminCheckinHistory(i, start, end) ==
    /\ Arrives(i)
    /\ IF start = NoTime \/ end = NoTime
       THEN AdminReturns(i, "ranged", ErrorBody(400))
       ELSE ScanRange(i, start, end)
    /\ UNCHANGED <<store, clock>>

\* ------------------------------------------------------------ the handler
\* The Authorization header: 'Bearer ' written `bearers` times, then the
\* text of a JWT (NoJwt: no text).  A JWT is its subject, its roles claim
\* and whether Auth0 signed it for this audience and issuer and it has not
\* expired.
RoleSets == {{}, {"staff"}, {"admin", "staff"}}
Validities == {"ok", "forged", "expired"}
Jwts == [sub : Users, validity : Validities, roles : RoleSets]
NoJwt == [sub |-> NoUser, validity |-> "none", roles |-> {}]
Headers == [bearers : 0..2, jwt : Jwts \cup {NoJwt}]

\* The request paths, by the route they take.
AdminPaths == {"active", "ranged", "admin-other"}
Paths == Kinds \cup AdminPaths \cup {"info", "unknown"}

\* authHeader.replace('Bearer ', ''): the first 'Bearer ' is removed.
Token(h) == [h EXCEPT !.bearers = IF @ > 0 THEN @ - 1 ELSE 0]

\* !token: the empty string.
TokenMissing(token) == token.bearers = 0 /\ token.jwt = NoJwt

\* jwt.decode in place of jwt.verify: the signature is not checked.
verifyDecodeOnly(token) == token.bearers = 0 /\ token.jwt # NoJwt

\* verify(token, getKey, {audience, issuer}): resolves for the text of a
\* JWT that Auth0 signed and whose claims fit, rejects anything else.
verify(token) ==
    /\ token.bearers = 0
    /\ token.jwt # NoJwt
    /\ token.jwt.validity = "ok"

\* Any role at all taken for the admin role.
isAdminAnyRole(decoded) == decoded.roles # {}

\* isAdmin: the roles claim (or []) includes 'admin'.
isAdmin(decoded) == "admin" \in decoded.roles

\* A response of the router itself: no handler runs.
Respond(i, code) ==
    /\ Arrives(i)
    /\ inv' = [inv EXCEPT ![i] = [IdleInv EXCEPT
                    !.pc = "done", !.resp = ErrorBody(code)]]
    /\ UNCHANGED <<store, clock>>

\* handleTestEndpoint / handleUserInfo.
HandleInfo(i, u) ==
    /\ Arrives(i)
    /\ inv' = [inv EXCEPT ![i] = [IdleInv EXCEPT
                    !.pc = "done", !.kind = "info", !.userId = u,
                    !.resp = InfoBody]]
    /\ UNCHANGED <<store, clock>>

\* handler: the token is taken from the header and verified, then the
\* request is routed; the admin routes come after the others and before
\* the 404.
handler(i, h, path, start, end) ==
    /\ Arrives(i)
    /\ LET token == Token(h)
       IN  IF TokenMissing(token) \/ ~verify(token)
           THEN Respond(i, 401)
           ELSE LET decoded == token.jwt
                IN  CASE path = "info" -> HandleInfo(i, decoded.sub)
                      [] path = "status" -> HandleCheckinStatus(i, decoded.sub)
                      [] path = "history" -> HandleCheckinHistory(i, decoded.sub)
                      [] path = "toggle" -> ToggleQuery(i, decoded.sub)
                      [] path \in AdminPaths /\ ~isAdmin(decoded) -> Respond(i, 403)
                      [] path = "active" /\ isAdmin(decoded) ->
                             handleAdminActiveCheckins(i)
                      [] path = "ranged" /\ isAdmin(decoded) ->
                             handleAdminCheckinHistory(i, start, end)
                      [] OTHER -> Respond(i, 404)

\* What the caller sent, as the caller knows it: whether the header is a
\* JWT that Auth0 issued to them for this API, bare or after one 'Bearer ',
\* the roles Auth0 gave them, the path they asked for and its start and
\* end query parameters (NoTime: not given).
Genuine(h) == h.bearers <= 1 /\ h.jwt.validity = "ok"

Sent(h, path, start, end) ==
    [genuine |-> Genuine(h),
     roles |-> IF Genuine(h) THEN h.jwt.roles ELSE {},
     path |-> path, start |-> start, end |-> end]

\* ------------------------------------------------------------ CheckInCard
\* The invocations the API has seen.
Arrived == Cardinality({j \in Invs : inv[j].pc # "idle"})

\* The responses that can be the answer to the request the card is waiting
\* for: requests of its user for that route that reached the API after the
\* card sent its own.
Responses(kind) ==
    {i \in Invs : /\ i > card.mark
                  /\ inv[i].pc = "done"
                  /\ inv[i].kind = kind
                  /\ inv[i].userId = CardUser}

\* fetchStatus with an ok response: setCheckedIn, setCheckInTime.
FetchStatusOk(c, r) ==
    [c EXCEPT !.checkedIn = r.checkedIn, !.checkInTime = r.checkInTime,
              !.stale = FALSE]

\* fetchStatus: the response applied when it is ok; otherwise (and when the
\* fetch throws) only a notification.
FetchStatus(c, r) == IF r.statusCode = 200 THEN FetchStatusOk(c, r) ELSE c

\* useEffect: the card is mounted and fetchStatus sends GET
\* /api/checkin/status.
CardMount ==
    /\ card.pc = "unmounted"
    /\ card' = [card EXCEPT !.pc = "mounting", !.mark = Arrived]
    /\ UNCHANGED <<store, clock, inv, request, admin>>

\* useEffect: fetchStatus settles; finally setInitialLoading(false).
CardMounted(i) ==
    /\ card.pc = "mounting"
    /\ i \in Responses("status")
    /\ card' = [FetchStatus(card, inv[i].resp) EXCEPT
                    !.pc = "ready", !.initialLoading = FALSE]
    /\ UNCHANGED <<store, clock, inv, request, admin>>

CardMountThrows ==
    /\ card.pc = "mounting"
    /\ card' = [card EXCEPT !.pc = "ready", !.initialLoading = FALSE]
    /\ UNCHANGED <<store, clock, inv, request, admin>>

\* A button that takes clicks while loading.
CardClickWhileLoading ==
    /\ card.pc \in {"ready", "posting"}
    /\ ~card.initialLoading
    /\ card.posts < MaxInv
    /\ card' = [card EXCEPT !.pc = "posting", !.loading = TRUE,
                            !.mark = Arrived, !.posts = @ + 1]
    /\ UNCHANGED <<store, clock, inv, request, admin>>

\* handleToggle, up to its await: the button is clicked (it is rendered
\* when initialLoading is false and takes no click while loading);
\* setLoading(true) and POST /api/checkin.
CardClick ==
    /\ card.pc = "ready"
    /\ ~card.initialLoading
    /\ ~card.loading
    /\ card' = [card EXCEPT !.pc = "posting", !.loading = TRUE,
                            !.mark = Arrived, !.posts = @ + 1]
    /\ UNCHANGED <<store, clock, inv, request, admin>>

\* A 409 taken for an answer: its body applied and no status fetched.
CardToggledApplies409(i) ==
    /\ card.pc = "posting"
    /\ i \in Responses("toggle")
    /\ LET r == inv[i].resp
       IN  card' = IF r.statusCode \in {200, 409}
                   THEN [card EXCEPT !.pc = "ready", !.loading = FALSE,
                                     !.checkedIn = r.checkedIn,
                                     !.checkInTime = r.checkInTime,
                                     !.stale = FALSE, !.posts = @ - 1]
                   ELSE [card EXCEPT !.pc = "ready", !.loading = FALSE,
                                     !.stale = TRUE, !.posts = @ - 1]
    /\ UNCHANGED <<store, clock, inv, request, admin>>

\* handleToggle after the await: 409 starts fetchStatus; another response
\* that is not ok throws into the catch; an ok one is applied.  finally
\* setLoading(false).
CardToggled(i) ==
    /\ card.pc = "posting"
    /\ i \in Responses("toggle")
    /\ LET r == inv[i].resp
       IN  card' = CASE r.statusCode = 409 ->
                          [card EXCEPT !.pc = "refetching", !.mark = Arrived,
                                       !.posts = @ - 1]
                     [] r.statusCode = 200 ->
                          [card EXCEPT !.pc = "ready", !.loading = FALSE,
                                       !.checkedIn = r.checkedIn,
                                       !.checkInTime = r.checkInTime,
                                       !.stale = FALSE, !.posts = @ - 1]
                     [] OTHER ->
                          [card EXCEPT !.pc = "ready", !.loading = FALSE,
                                       !.stale = TRUE, !.posts = @ - 1]
    /\ UNCHANGED <<store, clock, inv, request, admin>>

\* handleToggle: the fetch of the POST throws (no response reaches the
\* card); catch, finally.
CardToggleThrows ==
    /\ card.pc = "posting"
    /\ card' = [card EXCEPT !.pc = "ready", !.loading = FALSE, !.stale = TRUE,
                            !.posts = @ - 1]
    /\ UNCHANGED <<store, clock, inv, request, admin>>

\* handleToggle, 409 branch: the awaited fetchStatus settles; return,
\* finally setLoading(false).
CardRefetched(i) ==
    /\ card.pc = "refetching"
    /\ i \in Responses("status")
    /\ card' = [FetchStatus(card, inv[i].resp) EXCEPT
                    !.pc = "ready", !.loading = FALSE]
    /\ UNCHANGED <<store, clock, inv, request, admin>>

CardRefetchThrows ==
    /\ card.pc = "refetching"
    /\ card' = [card EXCEPT !.pc = "ready", !.loading = FALSE]
    /\ UNCHANGED <<store, clock, inv, request, admin>>

\* The card waits for the answer to a GET /api/checkin/status.
AwaitsStatus == card.pc \in {"mounting", "refetching"}

\* ------------------------------------------------------------ AdminContent
\* What AdminContent returns.
AdminContent(a) ==
    IF a.isLoading \/ a.adminLoading THEN "loader"
    ELSE IF ~a.isAuthenticated THEN "login"
    ELSE IF ~a.isAdmin THEN "denied"
    ELSE "dashboard"

\* A state of the component after a change, with what it renders then.
Rendered(a) == [a EXCEPT !.view = AdminContent(a)]

\* The sessions Auth0 can find: none, or a user with some roles.
Sessions ==
    {NoSession} \cup [authenticated : {TRUE}, roles : RoleSets]

\* The page is opened: Auth0 is loading, first render, the effect is due.
AdminMount ==
    /\ admin.pc = "unmounted"
    /\ \E ses \in Sessions :
          admin' = Rendered([admin EXCEPT !.pc = "mounted", !.effect = TRUE,
                                          !.session = ses])
    /\ UNCHANGED <<store, clock, inv, request, card>>

\* useAdminRole, the effect: while Auth0 is loading or nobody is logged
\* in, setAdminLoading(false); else getIdTokenClaims() is called.
useAdminRole ==
    /\ admin.effect
    /\ admin' = Rendered(
            IF admin.isLoading \/ ~admin.isAuthenticated
            THEN [admin EXCEPT !.effect = FALSE, !.adminLoading = FALSE]
            ELSE [admin EXCEPT !.effect = FALSE, !.claims = TRUE])
    /\ UNCHANGED <<store, clock, inv, request, card>>

\* useAuth0: Auth0 has finished loading; isLoading and isAuthenticated
\* change, the component renders again and its effect is due (React runs
\* the effects of a render before the next render).
Auth0Loaded ==
    /\ admin.pc = "mounted"
    /\ admin.isLoading
    /\ ~admin.effect
    /\ admin' = Rendered([admin EXCEPT
                    !.isLoading = FALSE,
                    !.isAuthenticated = admin.session.authenticated,
                    !.effect = TRUE])
    /\ UNCHANGED <<store, clock, inv, request, card>>

\* useAdminRole, .then of getIdTokenClaims: setIsAdmin, setAdminLoading.
ClaimsResolved ==
    /\ admin.claims
    /\ admin' = Rendered([admin EXCEPT
                    !.claims = FALSE,
                    !.isAdmin = "admin" \in admin.session.roles,
                    !.adminLoading = FALSE])
    /\ UNCHANGED <<store, clock, inv, request, card>>

\* ------------------------------------------------------------ specifications
\* Any interleaving of invocations.
Next ==
    \/ Tick /\ UNCHANGED client
    \/ \E i \in Invs, u \in Users : HandleCheckinStatus(i, u) /\ UNCHANGED client
    \/ \E i \in Invs, u \in Users : HandleCheckinHistory(i, u) /\ UNCHANGED client
    \/ \E i \in Invs, u \in Users : ToggleQuery(i, u) /\ UNCHANGED client
    \/ \E i \in Invs : ToggleStamp(i) /\ UNCHANGED client
    \/ \E i \in Invs : ToggleCheckOut(i) /\ UNCHANGED client
    \/ \E i \in Invs : ToggleCheckIn(i) /\ UNCHANGED client

Spec == Init /\ [][Next]_vars

\* Each invocation returns before the next one starts.
NextSeq ==
    \/ Tick /\ UNCHANGED client
    \/ \E i \in Invs, u \in Users : Quiescent /\ HandleCheckinStatus(i, u) /\ UNCHANGED client
    \/ \E i \in Invs, u \in Users : Quiescent /\ HandleCheckinHistory(i, u) /\ UNCHANGED client
    \/ \E i \in Invs, u \in Users : Quiescent /\ ToggleQuery(i, u) /\ UNCHANGED client
    \/ \E i \in Invs : ToggleStamp(i) /\ UNCHANGED client
    \/ \E i \in Invs : ToggleCheckOut(i) /\ UNCHANGED client
    \/ \E i \in Invs : ToggleCheckIn(i) /\ UNCHANGED client

SpecSeq == Init /\ [][NextSeq]_vars

\* Any interleaving, with store calls that fail; behaviours with failures
\* are explored with one invocation fewer.
FaultInvs == 1..(MaxInv - 1)

NextFault ==
    \/ Tick /\ UNCHANGED client
    \/ \E i \in FaultInvs, u \in Users : HandleCheckinStatus(i, u) /\ UNCHANGED client
    \/ \E i \in FaultInvs, u \in Users : HandleCheckinHistory(i, u) /\ UNCHANGED client
    \/ \E i \in FaultInvs, u \in Users : ToggleQuery(i, u) /\ UNCHANGED client
    \/ \E i \in FaultInvs : ToggleStamp(i) /\ UNCHANGED client
    \/ \E i \in FaultInvs : ToggleCheckOut(i) /\ UNCHANGED client
    \/ \E i \in FaultInvs : ToggleCheckIn(i) /\ UNCHANGED client
    \/ \E i \in FaultInvs, k \in Kinds, u \in Users : QueryFault(i, k, u) /\ UNCHANGED client
    \/ \E i \in FaultInvs, applied \in BOOLEAN : WriteFault(i, applied) /\ UNCHANGED client

SpecFault == Init /\ [][NextFault]_vars

\* History calls over a table that already holds a user's past sessions:
\* n sessions checked in at 1..n, each checked out in the millisecond it
\* was opened, the last one possibly still open.
SessionsUpTo(u, n, lastOpen) ==
    {Item(u, t, IF t = n /\ lastOpen THEN NoTime ELSE t) : t \in 1..n}

InitHistory ==
    /\ store \in {SessionsUpTo("u1", n, o) \cup SessionsUpTo("u2", m, ~o) :
                     n \in 0..MaxRows, m \in 0..2, o \in BOOLEAN}
    /\ clock = MaxRows
    /\ inv = [i \in Invs |-> IdleInv]
    /\ request = [i \in Invs |-> NoRequest]
    /\ card = InitCard
    /\ admin = InitAdmin

NextHistory ==
    \E i \in Invs, u \in Users : HandleCheckinHistory(i, u) /\ UNCHANGED client

SpecHistory == InitHistory /\ [][NextHistory]_vars

\* The whole handler, one request after the other, for callers who are
\* staff or who hold no good token at all.
GateInvs == 1..(MaxInv - 2)
GateHeaders == {h \in Headers : h.jwt = NoJwt \/ h.jwt.roles = {"staff"}}

NextGate ==
    \/ Tick /\ UNCHANGED client
    \/ \E i \in GateInvs, h \in GateHeaders, path \in Paths :
          /\ Quiescent
          /\ handler(i, h, path, NoTime, NoTime)
          /\ request' = [request EXCEPT ![i] = Sent(h, path, NoTime, NoTime)]
          /\ UNCHANGED <<card, admin>>
    \/ \E i \in GateInvs : ToggleStamp(i) /\ UNCHANGED client
    \/ \E i \in GateInvs : ToggleCheckOut(i) /\ UNCHANGED client
    \/ \E i \in GateInvs : ToggleCheckIn(i) /\ UNCHANGED client

SpecGate == Init /\ [][NextGate]_vars

\* The handler as it routes today (test, user-info, the check-in routes,
\* 404 for every other path), one request after the other, for callers
\* with and without a good token, with store calls that fail.
ApiInvs == 1..(MaxInv - 2)
ApiPaths == Kinds \cup {"info", "unknown"}
VerifiedHeaders == {h \in GateHeaders : verify(Token(h))}

NextApi ==
    \/ Tick /\ UNCHANGED client
    \/ \E i \in ApiInvs, h \in GateHeaders, path \in ApiPaths :
          /\ Quiescent
          /\ handler(i, h, path, NoTime, NoTime)
          /\ request' = [request EXCEPT ![i] = Sent(h, path, NoTime, NoTime)]
          /\ UNCHANGED <<card, admin>>
    \/ \E i \in ApiInvs, h \in VerifiedHeaders, k \in Kinds :
          /\ Quiescent
          /\ QueryFault(i, k, h.jwt.sub)
          /\ request' = [request EXCEPT ![i] = Sent(h, k, NoTime, NoTime)]
          /\ UNCHANGED <<card, admin>>
    \/ \E i \in ApiInvs : ToggleStamp(i) /\ UNCHANGED client
    \/ \E i \in ApiInvs : ToggleCheckOut(i) /\ UNCHANGED client
    \/ \E i \in ApiInvs : ToggleCheckIn(i) /\ UNCHANGED client
    \/ \E i \in ApiInvs, applied \in BOOLEAN : WriteFault(i, applied) /\ UNCHANGED client

SpecApi == Init /\ [][NextApi]_vars

\* A toggle that has read goes on: the runtime resumes it after its await,
\* and the store answers its write or fails it.
Resumes(i) ==
    \/ ToggleStamp(i) /\ UNCHANGED client
    \/ ToggleCheckOut(i) /\ UNCHANGED client
    \/ ToggleCheckIn(i) /\ UNCHANGED client
    \/ \E applied \in BOOLEAN : WriteFault(i, applied) /\ UNCHANGED client

SpecApiLive == SpecApi /\ \A i \in ApiInvs : WF_vars(Resumes(i))

\* The admin routes and the toggle, one request after the other, for
\* callers with a good token and any roles; the history of a range is
\* asked for without its parameters here.
AdminInvs == 1..(MaxInv - 2)
AdminHeaders == {h \in Headers : h.bearers = 1 /\ h.jwt.validity = "ok"}

NextAdmin ==
    \/ Tick /\ UNCHANGED client
    \/ \E i \in AdminInvs, h \in AdminHeaders, path \in AdminPaths \cup {"toggle"} :
          /\ Quiescent
          /\ handler(i, h, path, NoTime, NoTime)
          /\ request' = [request EXCEPT ![i] = Sent(h, path, NoTime, NoTime)]
          /\ UNCHANGED <<card, admin>>
    \/ \E i \in AdminInvs : ToggleStamp(i) /\ UNCHANGED client
    \/ \E i \in AdminInvs : ToggleCheckOut(i) /\ UNCHANGED client
    \/ \E i \in AdminInvs : ToggleCheckIn(i) /\ UNCHANGED client

SpecAdmin == Init /\ [][NextAdmin]_vars

\* The active check-ins asked for by an admin, between the toggles of the
\* users, one request after the other, over a table that already holds
\* past sessions; the present millisecond is later than all of them.
RosterInvs == 1..(MaxInv - 1)

InitRoster ==
    /\ store \in {SessionsUpTo("u1", n, o) \cup SessionsUpTo("u2", m, p) :
                     n, m \in 0..MaxPage, o, p \in BOOLEAN}
    /\ clock = MaxPage + 1
    /\ inv = [i \in Invs |-> IdleInv]
    /\ request = [i \in Invs |-> NoRequest]
    /\ card = InitCard
    /\ admin = InitAdmin

NextRoster ==
    \/ \E i \in RosterInvs : Quiescent /\ handleAdminActiveCheckins(i) /\ UNCHANGED client
    \/ \E i \in RosterInvs, u \in Users : Quiescent /\ ToggleQuery(i, u) /\ UNCHANGED client
    \/ \E i \in RosterInvs : ToggleStamp(i) /\ UNCHANGED client
    \/ \E i \in RosterInvs : ToggleCheckOut(i) /\ UNCHANGED client
    \/ \E i \in RosterInvs : ToggleCheckIn(i) /\ UNCHANGED client

SpecRoster == InitRoster /\ [][NextRoster]_vars

\* The history of a range asked for by an admin, between the toggles of
\* the users, one request after the other, over a table that already holds
\* past sessions.
RangeInvs == 1..(MaxInv - 3)
RangeTimes == 0..(MaxPage + 1)
RangeHeaders == {h \in AdminHeaders : isAdmin(h.jwt)}

NextRange ==
    \/ \E i \in RangeInvs, h \in RangeHeaders, start, end \in RangeTimes :
          /\ Quiescent
          /\ handler(i, h, "ranged", start, end)
          /\ request' = [request EXCEPT ![i] = Sent(h, "ranged", start, end)]
          /\ UNCHANGED <<card, admin>>
    \/ \E i \in RangeInvs, u \in Users : Quiescent /\ ToggleQuery(i, u) /\ UNCHANGED client
    \/ \E i \in RangeInvs : ToggleStamp(i) /\ UNCHANGED client
    \/ \E i \in RangeInvs : ToggleCheckOut(i) /\ UNCHANGED client
    \/ \E i \in RangeInvs : ToggleCheckIn(i) /\ UNCHANGED client

SpecRange == InitRoster /\ [][NextRange]_vars

\* One browser tab with the admin page, while the API serves the admin
\* routes and the toggle as in SpecAdmin.
NextPage ==
    \/ NextAdmin
    \/ AdminMount
    \/ useAdminRole
    \/ Auth0Loaded
    \/ ClaimsResolved

SpecPage == Init /\ [][NextPage]_vars

\* One browser tab of CardUser with its CheckInCard, the toggles other
\* devices of that user send, and store calls that fail.  The clock is
\* let advance while no invocation is running.
CardInvs == 1..(MaxInv - 1)

\* The tab is opened by a user who is checked out or who has checked in
\* before, in the present millisecond.
InitTab ==
    /\ store \in {{}, {Item(CardUser, 1, NoTime)}}
    /\ clock = 1
    /\ inv = [i \in Invs |-> IdleInv]
    /\ request = [i \in Invs |-> NoRequest]
    /\ card = InitCard
    /\ admin = InitAdmin

NextCard ==
    \/ Quiescent /\ Tick /\ UNCHANGED client
    \/ \E i \in CardInvs : AwaitsStatus /\ HandleCheckinStatus(i, CardUser) /\ UNCHANGED client
    \/ \E i \in CardInvs : ToggleQuery(i, CardUser) /\ UNCHANGED client
    \/ \E i \in CardInvs : ToggleStamp(i) /\ UNCHANGED client
    \/ \E i \in CardInvs : ToggleCheckOut(i) /\ UNCHANGED client
    \/ \E i \in CardInvs : ToggleCheckIn(i) /\ UNCHANGED client
    \/ \E i \in CardInvs : AwaitsStatus /\ QueryFault(i, "status", CardUser) /\ UNCHANGED client
    \/ \E i \in CardInvs : QueryFault(i, "toggle", CardUser) /\ UNCHANGED client
    \/ \E i \in CardInvs, applied \in BOOLEAN : WriteFault(i, applied) /\ UNCHANGED client
    \/ CardMount
    \/ \E i \in CardInvs : CardMounted(i)
    \/ CardMountThrows
    \/ CardClick
    \/ \E i \in CardInvs : CardToggled(i)
    \/ CardToggleThrows
    \/ \E i \in CardInvs : CardRefetched(i)
    \/ CardRefetchThrows

SpecCard == InitTab /\ [][NextCard]_vars

TypeOK ==
    /\ store \subseteq [userId : Users, checkInTime : Times,
                        checkOutTime : Times \cup {NoTime}]
    /\ clock \in Times
    /\ \A i \in Invs :
        /\ inv[i].pc \in {"idle", "entered", "stamp", "send", "done"}
        /\ inv[i].kind \in Kinds \cup {"none", "info", "active", "ranged"}
        /\ inv[i].currentSession \in Times \cup {NoTime}
        /\ inv[i].now \in Times \cup {NoTime}

\* ------------------------------------------------------------ properties
Toggle(i) == inv[i].kind = "toggle"
Done(i) == inv[i].pc = "done"
Open(s) == s.checkOutTime = NoTime
Closed(s) == s.checkOutTime # NoTime
CheckedIn200(r) == r.statusCode = 200 /\ r.checkedIn
CheckedOut200(r) == r.statusCode = 200 /\ ~r.checkedIn

\* The step in which invocation i sends its Put.
PutStep(i) ==
    /\ inv[i].pc = "send"
    /\ inv[i].currentSession = NoTime
    /\ inv'[i].pc = "done"

\* The step in which invocation i sends its conditional Update.
UpdateStep(i) ==
    /\ inv[i].pc = "send"
    /\ inv[i].currentSession # NoTime
    /\ inv'[i].pc = "done"

\* The finished toggles of user u that arrived before invocation i.
EarlierToggles(i, u) ==
    {j \in Invs : j < i /\ Toggle(j) /\ Done(j) /\ inv[j].userId = u}

Last(S) == CHOOSE j \in S : \A k \in S : k <= j

\* C1: under any interleaving of toggles, every user has at most one
\* session without a checkOutTime.
C1_AtMostOneOpenSession ==
    \A u \in Users : Cardinality({s \in Partition(u) : Open(s)}) <= 1

\* C2: when every invocation returns before the next one starts, two open
\* sessions of one user are the same session, in every state.
C2_SequentialAtMostOneOpen ==
    \A s, t \in store : (s.userId = t.userId /\ Open(s) /\ Open(t)) => s = t

\* C2 witness: a user with a closed session and, after it, an open one.
C2_Witness ==
    \E s, t \in store :
        /\ s.userId = t.userId
        /\ Closed(s) /\ Open(t)
        /\ s.checkInTime < t.checkInTime

\* C3: when two toggles of a user have both read the same open session
\* before either wrote, the step that finishes the second leaves exactly one
\* of them with 200 / checkedIn false and the other with 409, and the
\* session carries the checkOutTime of the one that got 200.
C3_ExactlyOneCloses ==
    [][\A i, j \in Invs :
          ( /\ i # j
            /\ i \in inv[j].peers
            /\ Done(i) /\ Toggle(i)
            /\ inv[i].currentSession # NoTime
            /\ UpdateStep(j) )
          =>
          LET ri == inv'[i].resp
              rj == inv'[j].resp
              win == IF CheckedOut200(ri) THEN ri ELSE rj
          IN  /\ \/ CheckedOut200(ri) /\ rj.statusCode = 409
                 \/ CheckedOut200(rj) /\ ri.statusCode = 409
              /\ Item(inv[i].userId, inv[i].currentSession, win.checkOutTime)
                     \in store'
      ]_vars

\* C4: a check-in whose key is already in the table leaves the table as it
\* is and is answered with 409.
C4_DuplicateKeyRejected ==
    [][\A i \in Invs :
          ( /\ PutStep(i)
            /\ \E s \in store : HasKey(s, inv[i].userId, inv[i].now) )
          => (store' = store /\ inv'[i].resp.statusCode = 409)
      ]_vars

\* C5: a session that has a checkOutTime is in the table, unchanged, after
\* every step.
C5_ClosedSessionsAreFinal ==
    [][\A s \in store : Closed(s) => s \in store']_vars

\* C6: every successful check-in adds one item to the partition of its
\* user, with a checkInTime greater than every checkInTime of the partition.
C6_CheckInTimesStrictlyIncrease ==
    [][\A i \in Invs :
          (PutStep(i) /\ CheckedIn200(inv'[i].resp))
          => LET u == inv[i].userId
             IN  /\ Cardinality({s \in store' : s.userId = u})
                        = Cardinality(Partition(u)) + 1
                 /\ \A s \in Partition(u) :
                        s.checkInTime < inv'[i].resp.checkInTime
      ]_vars

\* C7: every session with a checkOutTime has checkOutTime >= checkInTime.
C7_CheckOutNotBeforeCheckIn ==
    \A s \in store : Closed(s) => s.checkOutTime >= s.checkInTime

\* C7 witness: one session closed in the millisecond it was opened in and
\* one closed later.
C7_Witness ==
    \E s, t \in store :
        /\ Closed(s) /\ s.checkOutTime = s.checkInTime
        /\ Closed(t) /\ t.checkOutTime > t.checkInTime

\* C8: with non-overlapping calls, the toggles of a user answer 200 with
\* checkedIn true, false, true, ... starting from true; a check-out answers
\* the checkInTime of the check-in before it and its own timestamp; and a
\* status answers what the last toggle before it answered (checked out, and
\* no session, when there was none).
C8_TogglesAlternate ==
    \A i \in Invs : Done(i) =>
        LET u == inv[i].userId
            r == inv[i].resp
            before == EarlierToggles(i, u)
            last == inv[Last(before)].resp
        IN  /\ Toggle(i) =>
                /\ r.statusCode = 200
                /\ r.checkedIn = (before = {} \/ ~last.checkedIn)
                /\ r.checkedIn => r.checkInTime = inv[i].now
                /\ ~r.checkedIn =>
                    /\ r.checkInTime = last.checkInTime
                    /\ r.checkOutTime = inv[i].now
            /\ inv[i].kind = "status" =>
                /\ r.statusCode = 200
                /\ r.checkedIn = (before # {} /\ last.checkedIn)
                /\ r.checkInTime = IF r.checkedIn THEN last.checkInTime ELSE NoTime

\* C8 witness: a user's check-in, a status that answers its checkInTime, a
\* later check-out and a status after it.
C8_Witness ==
    \E u \in Users :
        /\ \A i \in Invs : Done(i) /\ inv[i].userId = u
        /\ Toggle(1) /\ inv[1].resp.checkedIn
        /\ inv[2].kind = "status" /\ inv[2].resp.checkedIn
        /\ inv[2].resp.checkInTime = inv[1].resp.checkInTime
        /\ Toggle(3) /\ ~inv[3].resp.checkedIn
        /\ inv[3].resp.checkOutTime > inv[3].resp.checkInTime
        /\ inv[4].kind = "status" /\ ~inv[4].resp.checkedIn

\* Toggle j is the toggle of its user that follows toggle i, i opened a
\* session and j closed it, and k is a later call of that user with no
\* toggle of the user between j and k.
OpenedClosedThen(i, j, k) ==
    /\ i < j /\ j < k
    /\ Done(i) /\ Done(j) /\ Done(k)
    /\ Toggle(i) /\ Toggle(j)
    /\ inv[i].userId = inv[j].userId /\ inv[j].userId = inv[k].userId
    /\ CheckedIn200(inv[i].resp) /\ CheckedOut200(inv[j].resp)
    /\ Last(EarlierToggles(j, inv[j].userId)) = i
    /\ Last(EarlierToggles(k, inv[k].userId)) = j

\* C9: with non-overlapping calls, after a toggle that opens a session and
\* the toggle that closes it, status answers checkedIn false and history
\* holds the session with the checkInTime and the checkOutTime the two
\* toggles answered.
C9_RoundTrip ==
    \A i, j, k \in Invs : OpenedClosedThen(i, j, k) =>
        /\ inv[k].kind = "status" => CheckedOut200(inv[k].resp)
        /\ inv[k].kind = "history" =>
            /\ inv[k].resp.statusCode = 200
            /\ inv[j].resp.checkOutTime # NoTime
            /\ \E n \in DOMAIN inv[k].resp.sessions :
                   inv[k].resp.sessions[n] =
                       [checkInTime |-> inv[i].resp.checkInTime,
                        checkOutTime |-> inv[j].resp.checkOutTime]

\* C9 witness: open, close, then a status and a history of the same user.
C9_Witness ==
    /\ OpenedClosedThen(1, 2, 3) /\ inv[3].kind = "status"
    /\ OpenedClosedThen(1, 2, 4) /\ inv[4].kind = "history"
    /\ Len(inv[4].resp.sessions) = 1

\* C10: a conditional close whose condition fails at the table ends its
\* toggle, in that step, with 409 and leaves every item as it was, and a
\* toggle that has answered takes no further step.
C10_FailedCloseIsConflict ==
    [][\A i \in Invs :
          /\ ( /\ inv[i].pc = "send"
               /\ inv[i].currentSession # NoTime
               /\ ~ConditionExpression(inv[i].userId, inv[i].currentSession)
               /\ inv'[i] # inv[i] )
             => /\ inv'[i].pc = "done"
                /\ inv'[i].resp.statusCode = 409
                /\ store' = store
          /\ Done(i) => inv'[i] = inv[i]
      ]_vars

\* C10 witness: a toggle that read an open session, found it closed at its
\* write and answered 409.
C10_Witness ==
    \E i \in Invs :
        /\ Done(i) /\ Toggle(i)
        /\ inv[i].currentSession # NoTime
        /\ inv[i].resp.statusCode = 409
        /\ \E s \in store :
               HasKey(s, inv[i].userId, inv[i].currentSession) /\ Closed(s)

\* Toggles i and j of one user overlap on a session: each had read it
\* before the other wrote.
Overlap(i, j) == i \in inv[j].peers \/ j \in inv[i].peers

\* C11: a toggle answers 409 only when another toggle of the same user,
\* overlapping it between its read and its write, has written the session
\* it read; so a toggle that overlaps no toggle of its user never answers
\* 409.
C11_ConflictOnlyFromConcurrentWrite ==
    [][\A i \in Invs :
          ( /\ inv[i].pc = "send"
            /\ inv'[i].pc = "done"
            /\ inv'[i].resp.statusCode = 409 )
          => \E j \in Invs \ {i} :
                /\ Toggle(j) /\ Done(j)
                /\ inv[j].userId = inv[i].userId
                /\ inv[j].currentSession = inv[i].currentSession
                /\ CheckedOut200(inv[j].resp)
                /\ Overlap(i, j)
      ]_vars

\* C11 witness: two overlapping toggles of a user on one open session, one
\* answered 200, the other 409.
C11_Witness ==
    \E i, j \in Invs :
        /\ i # j /\ Overlap(i, j)
        /\ Done(i) /\ Done(j)
        /\ inv[i].resp.statusCode = 409
        /\ CheckedOut200(inv[j].resp)

\* The step in which toggle i answers.
Answers(i) ==
    /\ inv[i].pc # "done"
    /\ inv'[i].pc = "done"
    /\ inv'[i].kind = "toggle"

\* C12: a toggle that answers 200 has, in that step, put the session it
\* reports into the table; a toggle whose store call fails with another
\* error than a failed condition answers 500 with no session in its body.
C12_SuccessOnlyIfWritten ==
    [][\A i \in Invs :
          /\ (Answers(i) /\ inv'[i].resp.statusCode = 200) =>
                LET r == inv'[i].resp
                IN  /\ inv[i].pc = "send"
                    /\ Item(inv[i].userId, r.checkInTime, r.checkOutTime) \in store'
                    /\ r.checkedIn <=> r.checkOutTime = NoTime
                    /\ store' = IF r.checkedIn
                                THEN PutCommand(inv[i].userId, inv[i].now)
                                ELSE UpdateCommand(inv[i].userId,
                                                   inv[i].currentSession, inv[i].now)
          /\ ( /\ Answers(i)
               /\ \/ \E u \in Users : QueryFault(i, "toggle", u)
                  \/ \E applied \in BOOLEAN : WriteFault(i, applied) )
             => inv'[i].resp = ErrorBody(500)
      ]_vars

\* C12 witness: a toggle whose Put was applied although the call failed,
\* answered with 500.
C12_Witness ==
    \E i \in Invs :
        /\ Done(i) /\ Toggle(i)
        /\ inv[i].resp = ErrorBody(500)
        /\ inv[i].now # NoTime
        /\ inv[i].currentSession = NoTime
        /\ Item(inv[i].userId, inv[i].now, NoTime) \in store

\* A step of a status or history invocation.
QueryStep(i) ==
    /\ inv'[i] # inv[i]
    /\ inv'[i].kind \in {"status", "history"}

\* C14: no step of a status or a history call changes the table, whether
\* the call answers 200 or fails.
C14_QueriesDoNotMutate ==
    [][\A i \in Invs : QueryStep(i) => store' = store]_vars

\* C14 witness: over a table that holds an open session, a status call
\* has found it and a history call has failed.
C14_Witness ==
    \E j, k \in Invs :
        /\ inv[j].kind = "status" /\ Done(j)
        /\ inv[j].resp.checkedIn
        /\ inv[k].kind = "history"
        /\ inv[k].resp = ErrorBody(500)
        /\ \E s \in store : Open(s)

\* The records of user u, and the session a read of them resolves to.
RecordsOf(u) == {s \in store : s.userId = u}

LatestOpen(S) ==
    IF S = {} THEN NoTime
    ELSE LET m == CHOOSE s \in S : \A t \in S : t.checkInTime <= s.checkInTime
         IN  IF Open(m) THEN m.checkInTime ELSE NoTime

\* C15: a step of a call made for user A adds, removes or changes only
\* records of A, and what the call reads (the session it resolves, the
\* entries of its history) is determined by the records of A alone.
C15_UsersAreIndependent ==
    [][\A i \in Invs :
          inv'[i] # inv[i] =>
            LET A == inv'[i].userId
                r == inv'[i].resp
            IN  /\ \A s \in (store \ store') \cup (store' \ store) : s.userId = A
                /\ \A B \in Users \ {A} :
                      {s \in store' : s.userId = B} = RecordsOf(B)
                /\ (inv[i].pc = "idle" /\ inv'[i].kind \in {"status", "toggle"})
                      => inv'[i].currentSession = LatestOpen(RecordsOf(A))
                /\ (inv'[i].kind = "history" /\ r.statusCode = 200)
                      => /\ Len(r.sessions) <= Cardinality(RecordsOf(A))
                         /\ \A k \in 1..Len(r.sessions) :
                               Item(A, r.sessions[k].checkInTime,
                                    r.sessions[k].checkOutTime) \in store
      ]_vars

\* C15 witness: a user without sessions has asked for status and history
\* and got none, while another user, who arrived first, is checked in.
C15_Witness ==
    \E i, j, k \in Invs, A, B \in Users :
        /\ A # B
        /\ k < i /\ k < j
        /\ Toggle(k) /\ Done(k) /\ inv[k].userId = B
        /\ CheckedIn200(inv[k].resp)
        /\ Item(B, inv[k].now, NoTime) \in store
        /\ inv[i].kind = "status" /\ Done(i) /\ inv[i].userId = A
        /\ ~inv[i].resp.checkedIn
        /\ inv[j].kind = "history" /\ Done(j) /\ inv[j].userId = A
        /\ inv[j].resp.sessions = <<>>


\* C16: a history answer lists sessions of the caller only, each with the
\* checkOutTime the table holds for it (none when it is open), in strictly
\* decreasing checkInTime order, and it lists the HistoryLimit latest of
\* them: every session it leaves out is older than every one it lists.
C16_HistoryPage ==
    \A i \in Invs :
        (inv[i].kind = "history" /\ Done(i) /\ inv[i].resp.statusCode = 200) =>
            LET u == inv[i].userId
                ses == inv[i].resp.sessions
                listed == {Item(u, ses[k].checkInTime, ses[k].checkOutTime) :
                               k \in 1..Len(ses)}
            IN  /\ Len(ses) = Min(Cardinality(RecordsOf(u)), HistoryLimit)
                /\ listed \subseteq RecordsOf(u)
                /\ \A k \in 1..(Len(ses) - 1) :
                      ses[k].checkInTime > ses[k + 1].checkInTime
                /\ \A s \in RecordsOf(u) \ listed, t \in listed :
                      s.checkInTime < t.checkInTime

\* C16 witness: a user with more than HistoryLimit sessions, the latest
\* still open, has got a full page that starts with the open one.
C16_Witness ==
    \E i \in Invs :
        /\ inv[i].kind = "history" /\ Done(i)
        /\ Cardinality(RecordsOf(inv[i].userId)) > HistoryLimit
        /\ Len(inv[i].resp.sessions) = HistoryLimit
        /\ inv[i].resp.sessions[1].checkOutTime = NoTime
        /\ inv[i].resp.sessions[2].checkOutTime # NoTime

\* A step of toggle i, and the records a step adds, removes or changes.
ToggleStepOf(i) ==
    /\ inv'[i] # inv[i]
    /\ inv'[i].kind = "toggle"

Changed == (store \ store') \cup (store' \ store)

\* Toggle i reads once, then stamps, then sends one write: the Put when it
\* read no open session, else the conditional Update; then it is finished.
ReadThenOneWrite(i) ==
    /\ inv[i].pc = "done" => inv'[i] = inv[i]
    /\ ToggleStepOf(i) =>
          \/ /\ inv[i].pc = "idle" /\ inv'[i].pc = "stamp"
             /\ store' = store
          \/ /\ inv[i].pc = "stamp" /\ inv'[i].pc = "send"
             /\ inv'[i].currentSession = inv[i].currentSession
             /\ store' = store
          \/ /\ PutStep(i)
             /\ store' = PutCommand(inv[i].userId, inv[i].now)
          \/ /\ UpdateStep(i)
             /\ store' \in {store, UpdateCommand(inv[i].userId,
                                                 inv[i].currentSession, inv[i].now)}

\* The step in which toggle i answers 200 changes one record.
SuccessChangesOneRecord(i) ==
    (ToggleStepOf(i) /\ inv'[i].resp.statusCode = 200) =>
        /\ Changed # {}
        /\ \E t \in Times : \A s \in Changed : HasKey(s, inv[i].userId, t)

\* C17: every toggle does one read and then exactly one write attempt, a
\* Put when it resolved no open session and a conditional Update when it
\* resolved one, and a toggle that answers 200 has changed exactly one
\* session record.
C17_OneReadOneWrite ==
    [][\A i \in Invs : ReadThenOneWrite(i) /\ SuccessChangesOneRecord(i)]_vars

\* The one-read-one-write part of C17 alone.
C17_OneWriteAttempt ==
    [][\A i \in Invs : ReadThenOneWrite(i)]_vars

\* An invocation that was turned away at the door: 401, no handler entered,
\* nothing read from the table.
Unauthorized401 == [IdleInv EXCEPT !.pc = "done", !.resp = ErrorBody(401)]

\* C18: a request whose Authorization header holds no token Auth0 issued
\* gets 401 and enters no handler, so it sends no Query, Put, Update or
\* Scan; every step that enters a handler or changes the table belongs to
\* an invocation whose token was genuine.
C18_NoStoreAccessUnverified ==
    [][/\ \A i \in Invs :
            /\ (inv'[i].pc # "idle" /\ ~request'[i].genuine)
                  => inv'[i] = Unauthorized401
            /\ (inv'[i] # inv[i] /\ inv'[i].kind # "none")
                  => request'[i].genuine
       /\ store' # store
             => \E i \in Invs : inv'[i] # inv[i] /\ request'[i].genuine
      ]_vars

\* C18 witness: with a session in the table, put there by a caller with a
\* genuine token, a request for a check-in route without one has been
\* answered 401.
C18_Witness ==
    /\ store # {}
    /\ \E i \in Invs :
          /\ inv[i] = Unauthorized401
          /\ ~request[i].genuine
          /\ request[i].path \in Kinds
          /\ \E j \in Invs : j < i /\ Toggle(j) /\ Done(j) /\ request[j].genuine

RosterStep(i) ==
    /\ inv[i].pc = "idle"
    /\ inv'[i].kind = "active"
    /\ inv'[i].resp.statusCode = 200

\* C20: the active check-ins returned are exactly the sessions in the
\* table that have no checkOutTime, each once: a user whose latest toggle
\* checked in at T1 has exactly one entry, with checkInTime T1, and a user
\* who has checked out (or never checked in) has none.
C20_ActiveRoster ==
    [][\A i \in Invs :
          RosterStep(i) =>
            LET ses == inv'[i].resp.sessions
                entries == {ses[k] : k \in 1..Len(ses)}
            IN  /\ entries = {ActiveEntry(s) : s \in {x \in store : Open(x)}}
                /\ Len(ses) = Cardinality(entries)
                /\ \A u \in Users :
                      LET T1 == LatestOpen(RecordsOf(u))
                          mine == {e \in entries : e.userId = u}
                      IN  IF T1 = NoTime
                          THEN mine = {}
                          ELSE mine = {[userId |-> u, checkInTime |-> T1]}
      ]_vars

\* C13: the card sends a POST /api/checkin only when, since the last POST
\* of its that failed otherwise than with 409, it has applied the result of
\* a GET /api/checkin/status.
C13_ResolveBeforeRetry ==
    [][(card.pc = "ready" /\ card'.pc = "posting") => ~card.stale]_vars

\* A finished request of an admin for the history of a range.
RangedDone(i) ==
    /\ inv[i].pc = "done"
    /\ request[i].genuine
    /\ request[i].path = "ranged"
    /\ "admin" \in request[i].roles

\* C21: a history of a range asked for with both start and end given and
\* start later than end is answered with a 400-class response and no
\* sessions.
C21_InvalidRange ==
    \A i \in Invs :
        ( /\ RangedDone(i)
          /\ request[i].start # NoTime
          /\ request[i].end # NoTime
          /\ request[i].start > request[i].end )
        => /\ inv[i].resp.statusCode \in 400..499
           /\ inv[i].resp.sessions = <<>>

RangeStep(i) ==
    /\ inv[i].pc = "idle"
    /\ inv'[i].kind = "ranged"
    /\ inv'[i].resp.statusCode = 200

\* C23: the history of a range with start <= end returns exactly the
\* sessions in the table, of all users, whose checkInTime t has
\* start <= t <= end, each once, with its checkOutTime or null.
C23_RangedHistory ==
    [][\A i \in Invs :
          RangeStep(i) =>
            LET ses == inv'[i].resp.sessions
                entries == {ses[k] : k \in 1..Len(ses)}
                start == request'[i].start
                end == request'[i].end
            IN  /\ start <= end
                /\ entries = {RangedEntry(s) : s \in
                                 {x \in store : /\ start <= x.checkInTime
                                                /\ x.checkInTime <= end}}
                /\ Len(ses) = Cardinality(entries)
      ]_vars

\* The card shows what response r says.
Shows(c, r) == c.checkedIn = r.checkedIn /\ c.checkInTime = r.checkInTime

SameShown == Shows(card', card)

C27_LoadingWhilePosting ==
    /\ card.posts <= 1
    /\ card.loading <=> card.pc \in {"posting", "refetching"}
    /\ card.posts = 1 <=> card.pc = "posting"

\* C27 witness: the card has had a POST answered and has sent the next
\* one, which is outstanding with loading set.
C27_Witness ==
    /\ card.pc = "posting"
    /\ card.loading
    /\ card.posts = 1
    /\ card.mark > 0
    /\ \E i \in Invs : i <= card.mark /\ Toggle(i) /\ Done(i)

\* What the handler may answer, and to whom: 401 to the callers without a
\* genuine token and to no one else; a 500 carries nothing but the error.
AnswersWell(i) ==
    /\ Done(i) => inv[i].resp.statusCode \in {200, 401, 404, 409, 500}
    /\ inv[i].resp.statusCode = 401 <=> (Done(i) /\ ~request[i].genuine)
    /\ inv[i].resp.statusCode = 500 => inv[i].resp = ErrorBody(500)
    /\ Done(i) \/ inv[i].pc = "idle" \/ Toggle(i)

\* The step in which a store call of invocation i fails.
StoreFails(i) ==
    /\ inv[i].pc # "done"
    /\ inv'[i].pc = "done"
    /\ \/ \E k \in Kinds, u \in Users : QueryFault(i, k, u)
       \/ \E applied \in BOOLEAN : WriteFault(i, applied)

\* C25: every invocation ends with a response, and its status is 200,
\* 401, 404, 409 or 500; a store call that fails inside status, toggle or
\* history is answered, in that step, with 500 and the bare error body,
\* and a caller with a genuine token is never answered 401.
C25_AlwaysAnswers ==
    /\ [](\A i \in Invs : AnswersWell(i))
    /\ [][\A i \in Invs : StoreFails(i) => inv'[i].resp = ErrorBody(500)]_vars
    /\ \A i \in ApiInvs : (inv[i].pc # "idle") ~> Done(i)

\* C25 witness: a toggle of a caller with a genuine token has had its
\* write fail and has answered 500, after a request without a genuine
\* token was answered 401.
C25_Witness ==
    \E i, j \in Invs :
        /\ i < j
        /\ inv[i] = Unauthorized401
        /\ Toggle(j) /\ Done(j)
        /\ request[j].genuine
        /\ inv[j].now # NoTime
        /\ inv[j].resp = ErrorBody(500)

\* C26: every session without a checkOutTime is the most recent session
\* of its user (no session of that user has a greater checkInTime), so
\* the Limit 1 query of getCurrentSession returns it.
C26_NoOrphan ==
    \A s \in store :
        Open(s) => /\ \A t \in Partition(s.userId) : t.checkInTime <= s.checkInTime
                   /\ getCurrentSession(s.userId) = s.checkInTime

\* No toggle of user u is between its read and its response.
NoToggleInProgress(u) ==
    \A j \in InFlight : ~(Toggle(j) /\ inv[j].userId = u)

\* C28: while no toggle of a user is in progress, the status of that user
\* says checkedIn exactly when the table holds a session of the user
\* without a checkOutTime (an entry of the active check-ins).
C28_StatusAgreesWithRoster ==
    \A u \in Users :
        NoToggleInProgress(u) =>
            ( StatusBody(getCurrentSession(u)).checkedIn
                <=> \E s \in Partition(u) : Open(s) )

\* Toggle i together with the toggles of its user that overlap it.
Contenders(i) == {i} \cup {j \in Invs : Overlap(i, j)}

\* C29: when a toggle and all the toggles of its user that overlap it
\* have answered and none of them failed with another error than a failed
\* condition, at least one of them has answered 200: they have not all
\* answered 409.
C29_SomeoneSucceeds ==
    \A i \in Invs :
        ( /\ Toggle(i)
          /\ \A j \in Contenders(i) :
                Done(j) /\ inv[j].resp.statusCode # 500 )
        => \E j \in Contenders(i) : inv[j].resp.statusCode = 200

\* C29 witness: a toggle that answered 409 and the toggles overlapping it
\* have all answered, and one of them answered 200.
C29_Witness ==
    \E i \in Invs :
        /\ Toggle(i) /\ Done(i)
        /\ inv[i].resp.statusCode = 409
        /\ Contenders(i) # {i}
        /\ \A j \in Contenders(i) : Done(j)
        /\ \E j \in Contenders(i) : inv[j].resp.statusCode = 200

\* C30: for a logged-in user whose claims hold the role admin, no render
\* of AdminContent returns the 'Not Authorized' card: the loader is
\* returned until the claims have been read.
C30_NoDeniedForAdmin ==
    ( /\ admin.session.authenticated
      /\ "admin" \in admin.session.roles )
    => admin.view # "denied"


=============================================================================
